---- MODULE Spec2Model ----
(***************************************************************************)
(* The connectivity gate of Module.get_context_data (src/module.py) over   *)
(* the shared Django cache, with concurrent request threads.               *)
(*                                                                         *)
(* Every cache operation of a request is one atomic step; the code between *)
(* two cache operations touches only the request's own locals and is       *)
(* folded into the step that follows it.  Time is kept in the cache        *)
(* entries themselves: an entry holds the seconds left until it expires,   *)
(* and an entry with nothing left is absent (cache.get returns None).      *)
(***************************************************************************)
EXTENDS Integers, FiniteSets, Sequences, TLC

\* ------------------------------------------------------------------ bounds
NumThreads == 2
Threads == 1..NumThreads
\* Requests served in one run.
MaxRequests == 3

\* Install requests handled at the same time.
NumInstallers == 2
Installers == 1..NumInstallers

\* Frames the remote shell sends in one session.
MaxChunks == 3
\* Calls of send_input in one session.
MaxSends == 1
\* The count of polls after stop() is kept up to this number.
MaxPolls == 2
\* Stages of run_install.
NumStages == 2

\* Tool ids (tool.id) of the tools in the table; the keys of the gate.
ToolIds == {1, 2}
\* The tool whose page is polled.
Polled == {1}

\* ------------------------------------------------------- program constants
\* A marker that is kept three times as long.
ProbingTimeoutTripled == 3 * 10

\* cache.set(probing_key, True, 10)
ProbingTimeout == 10
\* cache.set(cache_key, error_msg, 300)
ConnectivityErrorTimeout == 300
\* cache.set(cache_key, error_msg, 30)
GeneralErrorTimeout == 30

\* The two periods the gate's contract is stated in, measured by markerAge
\* and failWindow independently of the timeouts the code passes to the cache.
ProbeWindow == 10
TimeoutWindow == 300

\* The per-kind list calls, in the order the code issues them.
KindOrder ==
  <<"k8s_pods", "k8s_deployments", "k8s_services", "k8s_configmaps",
    "k8s_secrets", "k8s_events", "k8s_nodes">>
NumKinds == Len(KindOrder)
Kinds == {KindOrder[i] : i \in 1..NumKinds}
KindsBefore(i) == {KindOrder[j] : j \in 1..(i - 1)}
KindsUpTo(i) == {KindOrder[j] : j \in 1..i}
\* The list calls that are let fail: the first, one in the middle, the last.
FailingCalls == {i \in 1..NumKinds : KindOrder[i] \in {"k8s_pods", "k8s_secrets", "k8s_nodes"}}

\* str(e) of the exceptions a cluster call raises (never the empty string).
TimeoutErrors == {"No route to host"}
TransientErrors == {"Connection refused"}
CanaryErrors == TimeoutErrors \cup TransientErrors
ListErrors == {"Forbidden"}
LoadErrors == {"Invalid kube-config file"}

\* Fixed texts of the context's k8s_error.
LibraryMissing == "The 'kubernetes' Python library is not installed."
CachedPrefix == "Cluster unreachable (cached): "
InProgress == "Cluster connectivity check in progress..."
NoKubeconfig == "No readable kubeconfig found."

\* cache.get on an absent or expired key.
None == ""

VARIABLES
  toolStatus,     \* tool.status
  K8S_AVAILABLE,  \* module constant set at import
  pc,             \* pc[t]: where request thread t stands in get_context_data
  ctx,            \* ctx[t]: the context dict and locals of t's request
  probingTTL,     \* probingTTL[k]: seconds left of k8s_probing_<k>, 0 = absent
  errorTTL,       \* errorTTL[k]: seconds left of k8s_connectivity_error_<k>
  errorMsg,       \* errorMsg[k]: value of k8s_connectivity_error_<k>
  markerAge,      \* seconds since k8s_probing_<k> was last set, up to ProbeWindow
  markerOwner,    \* the thread whose call wrote the k8s_probing_<k> in the cache, 0 = none
  failWindow,     \* seconds left of TimeoutWindow after a canary timed out
  errorWindow,    \* seconds left of the timeout the last cached error was given
  last,           \* the context most recently returned by get_context_data
  started,        \* requests begun so far
  session,        \* what K8sSession(namespace, pod_name) gave its caller
  keep_running,   \* session.keep_running
  history,        \* session.history
  stream,         \* session.stream: the channel and its per-stream buffers
  yields,         \* the frames the remote shell sends, in the order it sends them
  runPc,          \* where the thread executing run() stands
  sender,         \* the request thread executing send_input
  trace,          \* what the session did: calls of stream.stream, of update, of close
  installPc,      \* installPc[r]: where install request r stands
  installTool,    \* installTool[r]: the status field of r's tool object
  installSeen,    \* installSeen[r]: the status the guard of r's install() read
  installThreads, \* installThreads[r]: run_install threads r has started
  installRun,     \* installRun[r]: where the run_install thread of r stands
  installStage,   \* installStage[r]: stages that thread has begun
  installJob      \* installJob[r]: current_stage and error_log of r's tool
                  \* object, and the stages whose command that thread has run

gateVars ==
  <<pc, ctx, probingTTL, errorTTL, errorMsg, markerAge, markerOwner, failWindow, errorWindow,
    last, started>>

sessionVars ==
  <<session, keep_running, history, stream, yields, runPc, sender, trace>>

installVars ==
  <<installPc, installTool, installSeen, installThreads, installRun, installStage,
    installJob>>

vars == <<toolStatus, K8S_AVAILABLE, gateVars, sessionVars, installVars>>

\* The keys of the context dict that hold a list.
ListKeys == Kinds \cup {"k8s_namespaces"}

\* The context dict as built at the top of get_context_data, with the
\* request's tool, the exception text in flight (msg), and a record of what
\* the request did: the cluster calls it issued and whether it set the marker.
\* lists is the set of keys that hold a list; data is the set of kinds whose
\* list has been replaced by the answer of a list call.
NewContext(k) ==
  [ tool |-> k,
    lists |-> ListKeys,
    k8s_error |-> <<>>,
    is_probing |-> FALSE,
    k8s_available |-> FALSE,
    k8s_namespaces |-> FALSE,
    data |-> {},
    msg |-> None,
    calls |-> {},
    marker_set |-> FALSE,
    exit |-> "none" ]

NoContext == NewContext(0)

\* --------------------------------------------------------------- the cache
\* A cache.get that misses the entry (the lookup uses another key).
CacheGetErrorMiss(k) == None

\* cache.get(key): the stored value while the entry has time left.
CacheGetError(k) == IF errorTTL[k] > 0 THEN errorMsg[k] ELSE None
CacheGetProbing(k) == probingTTL[k] > 0

\* Python truthiness of a cached message: "if last_error:".
Truthy(v) == v # None

\* ---------------------------------------------------------------- Init
\* No request is being handled and the cache is empty (cache.clear()).
GateIdle ==
  /\ pc = [t \in Threads |-> "idle"]
  /\ ctx = [t \in Threads |-> NoContext]
  /\ probingTTL = [k \in ToolIds |-> 0]
  /\ errorTTL = [k \in ToolIds |-> 0]
  /\ errorMsg = [k \in ToolIds |-> None]
  /\ markerAge = [k \in ToolIds |-> ProbeWindow]
  /\ markerOwner = [k \in ToolIds |-> 0]
  /\ failWindow = [k \in ToolIds |-> 0]
  /\ errorWindow = [k \in ToolIds |-> 0]
  /\ last = NoContext
  /\ started = 0

\* The channel of a session that does not exist.
NoStream ==
  [is_open |-> FALSE, stdout |-> <<>>, stderr |-> <<>>, stdin |-> <<>>, received |-> 0]

NoTrace == [opens |-> 0, polls |-> 0, closes |-> 0, cause |-> "none", result |-> "none"]

NoSender == [pc |-> "idle", data |-> None, outcome |-> "none", sent |-> 0]

\* No shell has been asked for.
SessionIdle ==
  /\ session = "none"
  /\ keep_running = FALSE
  /\ history = <<>>
  /\ stream = NoStream
  /\ runPc = "idle"
  /\ sender = NoSender
  /\ trace = NoTrace

\* The fields of a tool object that run_install has not touched.
NoJob == [current_stage |-> None, error_log |-> None, ran |-> <<>>]

\* No install request is being handled.
InstallIdle ==
  /\ installPc = [r \in Installers |-> "idle"]
  /\ installTool = [r \in Installers |-> None]
  /\ installSeen = [r \in Installers |-> None]
  /\ installThreads = [r \in Installers |-> 0]
  /\ installRun = [r \in Installers |-> "none"]
  /\ installStage = [r \in Installers |-> 0]
  /\ installJob = [r \in Installers |-> NoJob]

Init ==
  /\ toolStatus \in {"installed", "not_installed"}
  /\ K8S_AVAILABLE \in BOOLEAN
  /\ GateIdle
  /\ SessionIdle
  /\ yields = <<>>
  /\ InstallIdle

\* get_context_data returns context c from thread t.
Return(t, c, where) ==
  /\ pc' = [pc EXCEPT ![t] = "idle"]
  /\ ctx' = [ctx EXCEPT ![t] = NoContext]
  /\ last' = [c EXCEPT !.exit = where]

CacheUnchanged ==
  UNCHANGED <<probingTTL, errorTTL, errorMsg, markerAge, markerOwner, failWindow, errorWindow>>

\* Lines 165-186: the context is built; a tool that is not installed or a
\* missing kubernetes library returns at once.
Begin(t, k) ==
  /\ pc[t] = "idle"
  /\ started < MaxRequests
  /\ started' = started + 1
  /\ LET c == NewContext(k) IN
       IF toolStatus # "installed"
         THEN Return(t, c, "not_installed")
       ELSE IF ~K8S_AVAILABLE
         THEN Return(t, [c EXCEPT !.k8s_error = <<LibraryMissing>>], "no_library")
       ELSE /\ pc' = [pc EXCEPT ![t] = "check_error"]
            /\ ctx' = [ctx EXCEPT ![t] = c]
            /\ UNCHANGED last
  /\ CacheUnchanged
  /\ UNCHANGED <<toolStatus, K8S_AVAILABLE, sessionVars, installVars>>

\* Lines 193-196: a cached connectivity error is returned as it is.
CheckError(t) ==
  /\ pc[t] = "check_error"
  /\ LET k == ctx[t].tool
         last_error == CacheGetError(k)
     IN IF Truthy(last_error)
          THEN Return(t, [ctx[t] EXCEPT !.k8s_error = <<CachedPrefix, last_error>>],
                      "cached")
          ELSE /\ pc' = [pc EXCEPT ![t] = "check_probing"]
               /\ UNCHANGED <<ctx, last>>
  /\ CacheUnchanged
  /\ UNCHANGED <<started, toolStatus, K8S_AVAILABLE, sessionVars, installVars>>

\* A get_context_data that looks for the marker of any tool.
CheckProbingAnyKey(t) ==
  /\ pc[t] = "check_probing"
  /\ IF \E k \in ToolIds : CacheGetProbing(k)
       THEN Return(t, [ctx[t] EXCEPT !.k8s_error = <<InProgress>>,
                                     !.is_probing = TRUE], "probing")
       ELSE /\ pc' = [pc EXCEPT ![t] = "set_probing"]
            /\ UNCHANGED <<ctx, last>>
  /\ CacheUnchanged
  /\ UNCHANGED <<started, toolStatus, K8S_AVAILABLE, sessionVars, installVars>>

\* Lines 198-201: another request's probe is under way.
CheckProbing(t) ==
  /\ pc[t] = "check_probing"
  /\ IF CacheGetProbing(ctx[t].tool)
       THEN Return(t, [ctx[t] EXCEPT !.k8s_error = <<InProgress>>,
                                     !.is_probing = TRUE], "probing")
       ELSE /\ pc' = [pc EXCEPT ![t] = "set_probing"]
            /\ UNCHANGED <<ctx, last>>
  /\ CacheUnchanged
  /\ UNCHANGED <<started, toolStatus, K8S_AVAILABLE, sessionVars, installVars>>

\* A get_context_data that sets the marker before it looks for a kubeconfig.
NoConfigAfterMarker(t) ==
  /\ pc[t] = "set_probing"
  /\ probingTTL' = [probingTTL EXCEPT ![ctx[t].tool] = ProbingTimeout]
  /\ markerAge' = [markerAge EXCEPT ![ctx[t].tool] = 0]
  /\ markerOwner' = [markerOwner EXCEPT ![ctx[t].tool] = t]
  /\ Return(t, [ctx[t] EXCEPT !.k8s_error = <<NoKubeconfig>>, !.marker_set = TRUE],
            "no_kubeconfig")
  /\ UNCHANGED <<started, toolStatus, K8S_AVAILABLE, sessionVars, installVars,
                 errorTTL, errorMsg, failWindow, errorWindow>>

\* Lines 204-207: get_kubeconfig() found no readable file.
NoConfig(t) ==
  /\ pc[t] = "set_probing"
  /\ Return(t, [ctx[t] EXCEPT !.k8s_error = <<NoKubeconfig>>], "no_kubeconfig")
  /\ CacheUnchanged
  /\ UNCHANGED <<started, toolStatus, K8S_AVAILABLE, sessionVars, installVars>>

\* Lines 209-239: the probing marker is set for 10 seconds, then the client
\* is configured.  load_kube_config may raise (loaded = FALSE, text m), which
\* the outer handler at line 287 catches; otherwise the canary is issued.
SetProbing(t, loaded, m) ==
  /\ pc[t] = "set_probing"
  /\ LET k == ctx[t].tool IN
       /\ probingTTL' = [probingTTL EXCEPT ![k] = ProbingTimeout]
       /\ markerAge' = [markerAge EXCEPT ![k] = 0]
       /\ markerOwner' = [markerOwner EXCEPT ![k] = t]
       /\ IF loaded
            THEN /\ pc' = [pc EXCEPT ![t] = "canary"]
                 /\ ctx' = [ctx EXCEPT ![t].marker_set = TRUE,
                                       ![t].calls = {"list_namespace"}]
            ELSE /\ pc' = [pc EXCEPT ![t] = "except"]
                 /\ ctx' = [ctx EXCEPT ![t].marker_set = TRUE, ![t].msg = m]
  /\ UNCHANGED <<started, toolStatus, K8S_AVAILABLE, sessionVars, installVars, errorTTL, errorMsg, failWindow, errorWindow, last>>

\* A canary success that also deletes the key's cached error.
CanarySuccessClearsError(t) ==
  /\ pc[t] = "canary"
  /\ probingTTL' = [probingTTL EXCEPT ![ctx[t].tool] = 0]
  /\ markerOwner' = [markerOwner EXCEPT ![ctx[t].tool] = 0]
  /\ errorTTL' = [errorTTL EXCEPT ![ctx[t].tool] = 0]
  /\ errorMsg' = [errorMsg EXCEPT ![ctx[t].tool] = None]
  /\ pc' = [pc EXCEPT ![t] = "lists"]
  /\ ctx' = [ctx EXCEPT ![t].k8s_namespaces = TRUE]
  /\ UNCHANGED <<started, toolStatus, K8S_AVAILABLE, sessionVars, installVars, markerAge,
                 failWindow, errorWindow, last>>

\* Lines 243-245: list_namespace answered; the marker is deleted and the
\* per-kind list calls begin.
CanarySuccess(t) ==
  /\ pc[t] = "canary"
  /\ probingTTL' = [probingTTL EXCEPT ![ctx[t].tool] = 0]
  /\ markerOwner' = [markerOwner EXCEPT ![ctx[t].tool] = 0]
  /\ pc' = [pc EXCEPT ![t] = "lists"]
  /\ ctx' = [ctx EXCEPT ![t].k8s_namespaces = TRUE]
  /\ UNCHANGED <<started, toolStatus, K8S_AVAILABLE, sessionVars, installVars, errorTTL, errorMsg, markerAge,
                 failWindow, errorWindow, last>>

\* A canary failure that records the error and carries on with the list calls.
CanaryFailCarriesOn(t, m) ==
  /\ pc[t] = "canary"
  /\ LET k == ctx[t].tool IN
       /\ errorTTL' = [errorTTL EXCEPT ![k] = ConnectivityErrorTimeout]
       /\ errorMsg' = [errorMsg EXCEPT ![k] = m]
       /\ failWindow' = [failWindow EXCEPT ![k] =
                           IF m \in TimeoutErrors THEN TimeoutWindow ELSE @]
       /\ errorWindow' = [errorWindow EXCEPT ![k] = ConnectivityErrorTimeout]
       /\ probingTTL' = [probingTTL EXCEPT ![k] = 0]
       /\ markerOwner' = [markerOwner EXCEPT ![k] = 0]
  /\ pc' = [pc EXCEPT ![t] = "lists"]
  /\ ctx' = [ctx EXCEPT ![t].k8s_error = <<m>>, ![t].msg = m]
  /\ UNCHANGED <<started, toolStatus, K8S_AVAILABLE, sessionVars, installVars, markerAge, last>>

\* Lines 246-252: list_namespace raised an exception with text m; the text is
\* cached for 300 seconds.
CanaryFail(t, m) ==
  /\ pc[t] = "canary"
  /\ LET k == ctx[t].tool IN
       /\ errorTTL' = [errorTTL EXCEPT ![k] = ConnectivityErrorTimeout]
       /\ errorMsg' = [errorMsg EXCEPT ![k] = m]
       /\ failWindow' = [failWindow EXCEPT ![k] =
                           IF m \in TimeoutErrors THEN TimeoutWindow ELSE @]
       /\ errorWindow' = [errorWindow EXCEPT ![k] = ConnectivityErrorTimeout]
  /\ pc' = [pc EXCEPT ![t] = "fail_delete"]
  /\ ctx' = [ctx EXCEPT ![t].k8s_error = <<m>>, ![t].msg = m]
  /\ UNCHANGED <<started, toolStatus, K8S_AVAILABLE, sessionVars, installVars, probingTTL, markerAge, markerOwner, last>>

\* Lines 253-254: the marker is deleted and the error is returned.
FailDelete(t) ==
  /\ pc[t] = "fail_delete"
  /\ probingTTL' = [probingTTL EXCEPT ![ctx[t].tool] = 0]
  /\ markerOwner' = [markerOwner EXCEPT ![ctx[t].tool] = 0]
  /\ Return(t, ctx[t], "canary_failed")
  /\ UNCHANGED <<started, toolStatus, K8S_AVAILABLE, sessionVars, installVars, errorTTL, errorMsg, markerAge, failWindow, errorWindow>>

\* Lines 257-285 with every list call answering: all kinds carry data.
ListsDone(t) ==
  /\ pc[t] = "lists"
  /\ Return(t, [ctx[t] EXCEPT !.calls = @ \cup Kinds,
                              !.data = Kinds,
                              !.k8s_available = TRUE], "ok")
  /\ CacheUnchanged
  /\ UNCHANGED <<started, toolStatus, K8S_AVAILABLE, sessionVars, installVars>>

\* A fan-out that notes the failure of the i-th list call and issues the rest.
ListsFailIssuesRest(t, i, m) ==
  /\ pc[t] = "lists"
  /\ pc' = [pc EXCEPT ![t] = "except"]
  /\ ctx' = [ctx EXCEPT ![t].calls = @ \cup Kinds,
                        ![t].data = Kinds \ {KindOrder[i]},
                        ![t].msg = m]
  /\ CacheUnchanged
  /\ UNCHANGED <<started, toolStatus, K8S_AVAILABLE, sessionVars, installVars, last>>

\* A fan-out that sets k8s_available before the i-th list call raises.
ListsFailAfterAvailable(t, i, m) ==
  /\ pc[t] = "lists"
  /\ pc' = [pc EXCEPT ![t] = "except"]
  /\ ctx' = [ctx EXCEPT ![t].calls = @ \cup KindsUpTo(i),
                        ![t].data = KindsBefore(i),
                        ![t].k8s_available = TRUE,
                        ![t].msg = m]
  /\ CacheUnchanged
  /\ UNCHANGED <<started, toolStatus, K8S_AVAILABLE, sessionVars, installVars, last>>

\* Lines 267-284 where the i-th list call raises an exception with text m:
\* the kinds before it carry data, and control passes to the handler at 287.
ListsFail(t, i, m) ==
  /\ pc[t] = "lists"
  /\ pc' = [pc EXCEPT ![t] = "except"]
  /\ ctx' = [ctx EXCEPT ![t].calls = @ \cup KindsUpTo(i),
                        ![t].data = KindsBefore(i),
                        ![t].msg = m]
  /\ CacheUnchanged
  /\ UNCHANGED <<started, toolStatus, K8S_AVAILABLE, sessionVars, installVars, last>>

\* A general handler that reports the error and caches nothing.
ExceptCachesNothing(t) ==
  /\ pc[t] = "except"
  /\ Return(t, [ctx[t] EXCEPT !.k8s_error = <<ctx[t].msg>>], "general_error")
  /\ CacheUnchanged
  /\ UNCHANGED <<started, toolStatus, K8S_AVAILABLE, sessionVars, installVars>>

\* Lines 287-293: the general handler caches the text for 30 seconds.
Except(t) ==
  /\ pc[t] = "except"
  /\ LET k == ctx[t].tool IN
       /\ errorTTL' = [errorTTL EXCEPT ![k] = GeneralErrorTimeout]
       /\ errorMsg' = [errorMsg EXCEPT ![k] = ctx[t].msg]
       /\ errorWindow' = [errorWindow EXCEPT ![k] = GeneralErrorTimeout]
  /\ Return(t, [ctx[t] EXCEPT !.k8s_error = <<ctx[t].msg>>], "general_error")
  /\ UNCHANGED <<started, toolStatus, K8S_AVAILABLE, sessionVars, installVars, probingTTL, markerAge, markerOwner,
                 failWindow>>

\* handle_hx_request, given the context get_context_data returned.
Targets == Kinds \cup {"other"}

\* A handle_hx_request that renders without looking at is_probing.
handle_hx_request_always_renders(context, target) ==
  IF target \in Kinds THEN target ELSE "None"

handle_hx_request(context, target) ==
  IF context.is_probing THEN "204"
  ELSE IF target \in Kinds THEN target   \* render(<partial of the target>)
  ELSE "None"

\* views.k8s_repair_ip, lines 310-317: the cached error is deleted.
k8s_repair_ip(k) ==
  /\ errorTTL[k] > 0
  /\ errorTTL' = [errorTTL EXCEPT ![k] = 0]
  /\ errorMsg' = [errorMsg EXCEPT ![k] = None]
  /\ failWindow' = [failWindow EXCEPT ![k] = 0]
  /\ UNCHANGED <<started, toolStatus, K8S_AVAILABLE, sessionVars, installVars, pc, ctx, probingTTL, markerAge, markerOwner,
                 errorWindow, last>>

\* ---------------------------------------------------------------- time
Min(a, b) == IF a < b THEN a ELSE b
Max(a, b) == IF a > b THEN a ELSE b

\* Time is advanced from one moment at which something changes to another:
\* the seconds left until an entry expires or a window closes.
Deadlines ==
  LET left == UNION {{probingTTL[k], errorTTL[k], failWindow[k], errorWindow[k],
                      ProbeWindow - markerAge[k]} : k \in ToolIds}
  IN {d \in left : d > 0}

\* d seconds pass: every entry has d seconds less, and one with none left is gone.
Advance(d) ==
  /\ probingTTL' = [k \in ToolIds |-> Max(probingTTL[k] - d, 0)]
  /\ errorTTL' = [k \in ToolIds |-> Max(errorTTL[k] - d, 0)]
  /\ errorMsg' = [k \in ToolIds |-> IF errorTTL[k] - d > 0 THEN errorMsg[k] ELSE None]
  /\ markerAge' = [k \in ToolIds |-> Min(markerAge[k] + d, ProbeWindow)]
  /\ markerOwner' = [k \in ToolIds |-> IF probingTTL[k] - d > 0 THEN markerOwner[k] ELSE 0]
  /\ failWindow' = [k \in ToolIds |-> Max(failWindow[k] - d, 0)]
  /\ errorWindow' = [k \in ToolIds |-> Max(errorWindow[k] - d, 0)]
  /\ UNCHANGED <<started, toolStatus, K8S_AVAILABLE, sessionVars, installVars, pc, ctx, last>>

Next ==
  \/ \E t \in Threads : \E k \in Polled : Begin(t, k)
  \/ \E t \in Threads : CheckError(t)
  \/ \E t \in Threads : CheckProbing(t)
  \/ \E t \in Threads : NoConfig(t)
  \/ \E t \in Threads : SetProbing(t, TRUE, None)
  \/ \E t \in Threads : \E m \in LoadErrors : SetProbing(t, FALSE, m)
  \/ \E t \in Threads : CanarySuccess(t)
  \/ \E t \in Threads : \E m \in CanaryErrors : CanaryFail(t, m)
  \/ \E t \in Threads : FailDelete(t)
  \/ \E t \in Threads : ListsDone(t)
  \/ \E t \in Threads : \E i \in FailingCalls : \E m \in ListErrors : ListsFail(t, i, m)
  \/ \E t \in Threads : Except(t)
  \/ \E k \in Polled : k8s_repair_ip(k)
  \/ \E d \in Deadlines : Advance(d)

Spec == Init /\ [][Next]_vars

\* ================================================================ claims
\* Thread t takes its step out of position p.
Leaves(t, p) == pc[t] = p /\ pc'[t] # p

\* C1: for one key at most one live probe (list_namespace canary) is in
\* flight at any time.
C1_AtMostOneProbeInFlight ==
  \A k \in ToolIds :
    Cardinality({t \in Threads : pc[t] = "canary" /\ ctx[t].tool = k}) <= 1

\* C2: a request that reaches the error check while a non-expired cached
\* error exists returns that message marked as cached, has issued no cluster
\* call, and leaves the probing marker as it was.
C2_CachedErrorIsReused ==
  [][\A t \in Threads :
       (Leaves(t, "check_error") /\ errorTTL[ctx[t].tool] > 0) =>
         /\ pc'[t] = "idle"
         /\ last'.exit = "cached"
         /\ last'.k8s_error = <<CachedPrefix, errorMsg[ctx[t].tool]>>
         /\ last'.calls = {}
         /\ ~last'.marker_set
         /\ ~last'.k8s_available
         /\ probingTTL' = probingTTL]_vars

C2_Witness ==
  /\ last.exit = "cached"
  /\ errorTTL[last.tool] > 0
  /\ last.k8s_error = <<CachedPrefix, errorMsg[last.tool]>>

\* C3: a request that passed the error check and finds a non-expired probing
\* marker returns the in-progress context with no cluster call issued, and
\* handle_hx_request answers 204 for every target.
C3_ProbeInProgressIsReported ==
  [][\A t \in Threads :
       (Leaves(t, "check_probing") /\ probingTTL[ctx[t].tool] > 0) =>
         /\ pc'[t] = "idle"
         /\ last'.exit = "probing"
         /\ last'.is_probing
         /\ last'.k8s_error = <<InProgress>>
         /\ last'.calls = {}
         /\ ~last'.marker_set
         /\ \A target \in Targets : handle_hx_request(last', target) = "204"
         /\ UNCHANGED <<probingTTL, errorTTL, errorMsg>>]_vars

C3_Witness ==
  /\ last.exit = "probing"
  /\ last.is_probing
  /\ probingTTL[last.tool] > 0
  /\ \E t \in Threads : pc[t] = "canary" /\ ctx[t].tool = last.tool

\* C4: while the 300 seconds after a canary timeout last, every request that
\* reaches the error check returns the cached error.  (The window is taken
\* to end early when k8s_repair_ip clears the entry on purpose.)
C4_TimeoutIsCachedFor300Seconds ==
  [][\A t \in Threads :
       (Leaves(t, "check_error") /\ failWindow[ctx[t].tool] > 0) =>
         (pc'[t] = "idle" /\ last'.exit = "cached")]_vars

\* C5: a canary failure that is not a timeout is cached for 30 seconds.
C5_TransientIsCachedFor30Seconds ==
  [][\A t \in Threads :
       (pc[t] = "canary" /\ pc'[t] = "fail_delete"
          /\ ctx'[t].msg \in TransientErrors) =>
         errorTTL'[ctx[t].tool] = 30]_vars

\* C6: when the canary of a request succeeds, both the probing marker and
\* any cached error of the key are absent right after that step.
C6_SuccessClearsMarkerAndError ==
  [][\A t \in Threads :
       (pc[t] = "canary" /\ pc'[t] = "lists") =>
         /\ probingTTL'[ctx[t].tool] = 0
         /\ errorTTL'[ctx[t].tool] = 0]_vars

\* C7: 10 seconds after the probing marker was set it is no longer in
\* effect, also when the request that set it has not reported, and a request
\* that then reaches the probing check goes on to its own live call.
C7_AbandonedMarkerExpires ==
  [][/\ \A k \in ToolIds : markerAge'[k] >= 10 => probingTTL'[k] = 0
     /\ \A t \in Threads :
          (Leaves(t, "check_probing") /\ markerAge[ctx[t].tool] >= 10) =>
            pc'[t] = "set_probing"]_vars

C7_Witness ==
  \E t, u \in Threads :
    /\ t # u
    /\ pc[t] = "canary" /\ ctx[t].marker_set
    /\ ctx[u].tool = ctx[t].tool
    /\ markerAge[ctx[t].tool] >= 10
    /\ probingTTL[ctx[t].tool] = 0
    /\ errorTTL[ctx[t].tool] = 0
    /\ pc[u] = "check_probing"

\* C8: a failing canary caches the error, the marker is then deleted, and
\* the request returns the error having issued none of the per-kind calls.
C8_CanaryFailureShortCircuits ==
  [][\A t \in Threads :
       /\ (Leaves(t, "canary") /\ ctx'[t].msg # None) =>
            /\ pc'[t] = "fail_delete"
            /\ errorTTL'[ctx[t].tool] > 0
            /\ errorMsg'[ctx[t].tool] = ctx'[t].msg
       /\ Leaves(t, "fail_delete") =>
            /\ pc'[t] = "idle"
            /\ probingTTL'[ctx[t].tool] = 0
            /\ last'.exit = "canary_failed"
            /\ last'.k8s_error = <<ctx[t].msg>>
            /\ last'.calls = {"list_namespace"}
            /\ last'.data = {}
            /\ ~last'.k8s_available]_vars

C8_Witness ==
  /\ last.exit = "canary_failed"
  /\ last.k8s_error = <<last.msg>>
  /\ last.msg \in CanaryErrors
  /\ last.calls = {"list_namespace"}

\* A returned context whose request failed in a per-kind list call.
ListFailure(c) == c.exit = "general_error" /\ c.k8s_namespaces

\* C9 as stated: after a per-kind failure the list calls of the remaining
\* kinds are still issued.
C9_ListFailureDoesNotAbort ==
  ListFailure(last) => Kinds \subseteq last.calls

\* C9 as amended: the first failing list call ends the fan-out.  The kinds
\* before it carry data, it and the kinds after it are empty, no call is
\* issued for the kinds after it, and the error is that of the whole result.
C9_ListFailureAborts ==
  ListFailure(last) =>
    \E i \in 1..NumKinds :
      /\ last.calls = {"list_namespace"} \cup KindsUpTo(i)
      /\ last.data = KindsBefore(i)
      /\ last.k8s_error = <<last.msg>>
      /\ last.msg \in ListErrors
      /\ ~last.k8s_available

C9_Witness ==
  /\ ListFailure(last)
  /\ last.data = KindsBefore(5)
  /\ last.calls = {"list_namespace"} \cup KindsUpTo(5)

\* C10 as stated: a failure after the canary succeeded leaves the key's
\* cached error as it was.
C10_ListFailureIsNotCached ==
  [][\A t \in Threads :
       (Leaves(t, "except") /\ ctx[t].k8s_namespaces) =>
         UNCHANGED <<errorTTL, errorMsg>>]_vars

\* C10 as amended: a failure after the canary succeeded is cached under the
\* key's connectivity error with 30 seconds to live.
C10_ListFailureIsCachedFor30Seconds ==
  [][\A t \in Threads :
       (Leaves(t, "except") /\ ctx[t].k8s_namespaces) =>
         /\ errorTTL'[ctx[t].tool] = 30
         /\ errorMsg'[ctx[t].tool] = ctx[t].msg
         /\ last'.exit = "general_error"
         /\ last'.k8s_error = <<ctx[t].msg>>]_vars

C10_Witness ==
  /\ ListFailure(last)
  /\ errorTTL[last.tool] = 30
  /\ errorMsg[last.tool] = last.msg

\* C11: for each cluster key the probing marker and the cached error are
\* never both in effect, the steps of a failure report and the exception
\* paths included.
C11_MarkerAndErrorNeverBothActive ==
  \A k \in ToolIds : ~(probingTTL[k] > 0 /\ errorTTL[k] > 0)

\* C12 as stated: until the timeout a cached failure was given has run out,
\* every request for the key is answered from the cache; none gets past the
\* error check to a live call.
C12_ExpiryIsTheSoleWayBack ==
  [][\A t \in Threads :
       (Leaves(t, "check_error") /\ errorWindow[ctx[t].tool] > 0) =>
         /\ pc'[t] = "idle"
         /\ last'.exit = "cached"
         /\ last'.calls = {}]_vars

\* C12 as amended: a cached failure ceases to be in effect only by the
\* passing of time or by k8s_repair_ip; no step of a request removes it, and
\* while it is in effect every request at the error check is answered from
\* the cache without a call.
C12_ExpiryOrRepairIsTheWayBack ==
  [][/\ \A k \in ToolIds :
          (errorTTL[k] > 0 /\ errorTTL'[k] = 0) =>
            \/ k8s_repair_ip(k)
            \/ \E d \in Deadlines : Advance(d)
      /\ \A t \in Threads :
          (Leaves(t, "check_error") /\ errorTTL[ctx[t].tool] > 0) =>
            /\ pc'[t] = "idle"
            /\ last'.exit = "cached"
            /\ last'.calls = {}]_vars

\* A request was answered from the cache, k8s_repair_ip then deleted the
\* entry before its time, and the next request is past the error check.
C12_Witness ==
  /\ last.exit = "cached"
  /\ errorTTL[last.tool] = 0
  /\ errorWindow[last.tool] > 0
  /\ \E t \in Threads : pc[t] = "check_probing" /\ ctx[t].tool = last.tool

\* The result of a call that went nowhere near the cluster or the cache:
\* empty lists, k8s_available false.
Degraded(c) ==
  /\ c.calls = {}
  /\ c.data = {}
  /\ ~c.k8s_namespaces
  /\ ~c.k8s_available
  /\ ~c.is_probing
  /\ ~c.marker_set

\* C22: a call for a tool that is not installed, a call without the
\* kubernetes library and a call that finds no readable kubeconfig return
\* the degraded result, with the matching text in the last two cases, issue
\* no cluster call and leave the marker and the cached error as they were.
C22_DegradedPathsTouchNothing ==
  [][
     /\ (started' # started /\ (toolStatus # "installed" \/ ~K8S_AVAILABLE)) =>
         (/\ pc' = pc
          /\ Degraded(last')
          /\ last'.exit = IF toolStatus # "installed" THEN "not_installed"
                                                       ELSE "no_library"
          /\ last'.k8s_error = IF toolStatus # "installed" THEN <<>>
                                                            ELSE <<LibraryMissing>>
          /\ UNCHANGED <<probingTTL, errorTTL, errorMsg>>)
     /\ \A t \in Threads :
          (Leaves(t, "set_probing") /\ pc'[t] = "idle") =>
            (/\ Degraded(last')
             /\ last'.exit = "no_kubeconfig"
             /\ last'.k8s_error = <<NoKubeconfig>>
             /\ UNCHANGED <<probingTTL, errorTTL, errorMsg>>)
    ]_vars

\* A call found no readable kubeconfig and returned; the key has neither a
\* marker nor a cached error.
C22_Witness ==
  /\ last.exit = "no_kubeconfig"
  /\ last.k8s_error = <<NoKubeconfig>>
  /\ last.calls = {}
  /\ probingTTL[last.tool] = 0
  /\ errorTTL[last.tool] = 0

\* The marker of key k is the one thread t's call in progress wrote.
OwnMarker(t, k) == markerOwner[k] = t /\ ctx[t].marker_set /\ ctx[t].tool = k

\* C23: a call that set the probing marker has removed it by the time it
\* returns, on every path: no call returns while the marker it wrote is still
\* in the cache.
C23_ReturnedCallLeavesNoMarker ==
  [][\A t \in Threads :
       (pc[t] # "idle" /\ pc'[t] = "idle" /\ OwnMarker(t, ctx[t].tool)) =>
         probingTTL'[ctx[t].tool] = 0]_vars

\* Thread t reports the outcome of its canary: the delete of the marker at
\* line 245 (success) or line 253 (failure).
Reports(t) ==
  \/ pc[t] = "canary" /\ pc'[t] = "lists"
  \/ pc[t] = "fail_delete" /\ pc'[t] = "idle"

\* C24: the report of a caller removes only the marker this caller wrote; a
\* marker another caller has written since stays as it is.
C24_ReportClearsOnlyOwnMarker ==
  [][\A t \in Threads :
       (Reports(t) /\ probingTTL[ctx[t].tool] > 0 /\ ~OwnMarker(t, ctx[t].tool)) =>
         probingTTL'[ctx[t].tool] = probingTTL[ctx[t].tool]]_vars

\* C27: in every result get_context_data returns, k8s_available is true only
\* when the canary and all seven list calls of the request answered, and then
\* there is no k8s_error; a result with a k8s_error has k8s_available false;
\* and every result holds a list for each of the seven kinds and for
\* namespaces, filled only for the calls that answered.
C27_AvailableOnlyAfterEveryCall ==
  last.exit # "none" =>
    /\ last.k8s_available =>
         /\ last.k8s_namespaces
         /\ last.calls = Kinds \cup {"list_namespace"}
         /\ last.data = Kinds
         /\ last.k8s_error = <<>>
         /\ last.exit = "ok"
    /\ last.k8s_error # <<>> => ~last.k8s_available
    /\ ListKeys \subseteq last.lists
    /\ last.data \subseteq Kinds
    /\ Cardinality(Kinds) = 7

\* A request whose canary and seven list calls answered has returned.
C27_Witness ==
  /\ last.exit = "ok"
  /\ last.k8s_available
  /\ last.data = Kinds
  /\ last.k8s_error = <<>>
  /\ last.lists = ListKeys

\* =========================================================== K8sSession
\* The remote shell's frames are numbered in the order it sends them;
\* yields[i] is the stream frame i belongs to, and a buffer or a history
\* entry is the sequence of the frames whose data it holds.
Streams == {"stdout", "stderr"}
Scripts == UNION {[1..n -> Streams] : n \in 1..MaxChunks}
Inputs == {"ls", "exit"}

\* str.encode(): the bytes of the text read.
encode(text) == [bytes |-> text]

\* TerminalSession.add_history(data): data is put at the end of history.
add_history(h, data) == Append(h, data)

\* What one call of stream.update() can find on the socket: nothing within
\* the timeout, the next frame of data, or the remote's close frame.
Arrivals(st) ==
  {"nothing"}
    \cup (IF st.is_open THEN {"close"} ELSE {})
    \cup (IF st.is_open /\ st.received < Len(yields) THEN {"data"} ELSE {})

\* stream.update(): at most one frame is taken from the socket; data goes to
\* the end of its stream's buffer, a close frame marks the channel closed,
\* and a closed channel is left as it is.
update(st, arrival) ==
  IF ~st.is_open \/ arrival = "nothing" THEN st
  ELSE IF arrival = "close" THEN [st EXCEPT !.is_open = FALSE]
  ELSE LET i == st.received + 1
       IN [st EXCEPT !.received = i, ![yields[i]] = Append(@, i)]

SessionQuiet == UNCHANGED <<toolStatus, K8S_AVAILABLE, gateVars, installVars, yields>>

\* A constructor that calls _setup_session a second time when the first
\* call raises.
K8sSessionInitRetries(outcome) ==
  /\ session = "none"
  /\ outcome \in {"load_kube_config raises", "stream raises", "ok"}
  /\ IF outcome = "load_kube_config raises"
       THEN /\ session' = "failed"
            /\ UNCHANGED <<keep_running, stream, trace>>
       ELSE /\ session' = IF outcome = "ok" THEN "created" ELSE "failed"
            /\ keep_running' = (outcome = "ok")
            /\ stream' = [NoStream EXCEPT !.is_open = (outcome = "ok")]
            /\ trace' = [trace EXCEPT !.opens = IF outcome = "ok" THEN 1 ELSE 2]
  /\ UNCHANGED <<history, runPc, sender>>
  /\ SessionQuiet

\* K8sSession.__init__ and _setup_session, lines 40-53: an exception of
\* load_kube_config or of stream.stream leaves the constructor, and the
\* caller has no session; otherwise the session holds the open channel.
K8sSessionInit(outcome) ==
  /\ session = "none"
  /\ outcome \in {"load_kube_config raises", "stream raises", "ok"}
  /\ IF outcome = "load_kube_config raises"
       THEN /\ session' = "failed"
            /\ UNCHANGED <<keep_running, stream, trace>>
       ELSE /\ session' = IF outcome = "ok" THEN "created" ELSE "failed"
            /\ keep_running' = (outcome = "ok")
            /\ stream' = [NoStream EXCEPT !.is_open = (outcome = "ok")]
            /\ trace' = [trace EXCEPT !.opens = @ + 1]
  /\ UNCHANGED <<history, runPc, sender>>
  /\ SessionQuiet

\* The session's thread begins run().
Start ==
  /\ session = "created"
  /\ runPc = "idle"
  /\ runPc' = "loop"
  /\ UNCHANGED <<session, keep_running, history, stream, sender, trace>>
  /\ SessionQuiet

\* A loop condition that does not look at keep_running.
LoopCheckIgnoresFlag ==
  /\ runPc = "loop"
  /\ IF stream.is_open
       THEN runPc' = "update" /\ UNCHANGED trace
       ELSE runPc' = "close" /\ trace' = [trace EXCEPT !.cause = "closed"]
  /\ UNCHANGED <<session, keep_running, history, stream, sender>>
  /\ SessionQuiet

\* A run() that returns at once when it finds the channel closed.
LoopCheckReturnsWhenClosed ==
  /\ runPc = "loop"
  /\ IF keep_running /\ stream.is_open
       THEN runPc' = "update" /\ UNCHANGED trace
       ELSE IF ~keep_running
         THEN runPc' = "close" /\ trace' = [trace EXCEPT !.cause = "flag"]
         ELSE runPc' = "done" /\ trace' = [trace EXCEPT !.cause = "closed",
                                                         !.result = "returned"]
  /\ UNCHANGED <<session, keep_running, history, stream, sender>>
  /\ SessionQuiet

\* Line 57: while self.keep_running and self.stream.is_open().
LoopCheck ==
  /\ runPc = "loop"
  /\ IF keep_running /\ stream.is_open
       THEN runPc' = "update" /\ UNCHANGED trace
       ELSE /\ runPc' = "close"
            /\ trace' = [trace EXCEPT !.cause = IF ~keep_running THEN "flag"
                                                                 ELSE "closed"]
  /\ UNCHANGED <<session, keep_running, history, stream, sender>>
  /\ SessionQuiet

\* Line 58: self.stream.update(timeout=0.1).
Update(arrival) ==
  /\ runPc = "update"
  /\ arrival \in Arrivals(stream)
  /\ stream' = update(stream, arrival)
  /\ trace' = [trace EXCEPT !.polls = IF keep_running \/ @ >= MaxPolls THEN @ ELSE @ + 1]
  /\ runPc' = "stdout"
  /\ UNCHANGED <<session, keep_running, history, sender>>
  /\ SessionQuiet

\* A read whose data does not reach the history.
ReadStdoutDropsData(arrival) ==
  /\ runPc = "stdout"
  /\ arrival \in Arrivals(stream)
  /\ stream' = [update(stream, arrival) EXCEPT !.stdout = <<>>]
  /\ runPc' = "stderr"
  /\ UNCHANGED <<session, keep_running, history, sender, trace>>
  /\ SessionQuiet

\* Lines 59-60: peek_stdout() looks at the socket once more and tells whether
\* the stdout buffer holds data; read_stdout() takes all of it, and its
\* bytes are added to the history.
ReadStdout(arrival) ==
  /\ runPc = "stdout"
  /\ arrival \in Arrivals(stream)
  /\ LET st == update(stream, arrival) IN
       IF st.stdout # <<>>
         THEN /\ history' = add_history(history, encode(st.stdout))
              /\ stream' = [st EXCEPT !.stdout = <<>>]
         ELSE /\ stream' = st
              /\ UNCHANGED history
  /\ runPc' = "stderr"
  /\ UNCHANGED <<session, keep_running, sender, trace>>
  /\ SessionQuiet

\* Lines 61-62: the same for stderr; the loop condition is next.
ReadStderr(arrival) ==
  /\ runPc = "stderr"
  /\ arrival \in Arrivals(stream)
  /\ LET st == update(stream, arrival) IN
       IF st.stderr # <<>>
         THEN /\ history' = add_history(history, encode(st.stderr))
              /\ stream' = [st EXCEPT !.stderr = <<>>]
         ELSE /\ stream' = st
              /\ UNCHANGED history
  /\ runPc' = "loop"
  /\ UNCHANGED <<session, keep_running, sender, trace>>
  /\ SessionQuiet

\* A run() without the try: the exception leaves run().
RaisePropagates ==
  /\ runPc \in {"update", "stdout", "stderr"}
  /\ runPc' = "done"
  /\ trace' = [trace EXCEPT !.cause = "error", !.result = "raised"]
  /\ UNCHANGED <<session, keep_running, history, stream, sender>>
  /\ SessionQuiet

\* Lines 63-64: update, a peek or a read raised; the bare except takes the
\* exception and the loop is over.
Raise ==
  /\ runPc \in {"update", "stdout", "stderr"}
  /\ runPc' = "close"
  /\ trace' = [trace EXCEPT !.cause = "error"]
  /\ UNCHANGED <<session, keep_running, history, stream, sender>>
  /\ SessionQuiet

\* A close after which run() sets the channel up again and goes on.
CloseAndReopen ==
  /\ runPc = "close"
  /\ stream' = [stream EXCEPT !.is_open = TRUE]
  /\ trace' = [trace EXCEPT !.closes = @ + 1, !.opens = @ + 1, !.result = "returned"]
  /\ runPc' = "done"
  /\ UNCHANGED <<session, keep_running, history, sender>>
  /\ SessionQuiet

\* Line 65: self.stream.close(), and run() returns.
Close ==
  /\ runPc = "close"
  /\ stream' = [stream EXCEPT !.is_open = FALSE]
  /\ trace' = [trace EXCEPT !.closes = @ + 1, !.result = "returned"]
  /\ runPc' = "done"
  /\ UNCHANGED <<session, keep_running, history, sender>>
  /\ SessionQuiet

\* stop(): the flag is cleared by another thread; nothing else is touched.
Stop ==
  /\ session = "created"
  /\ keep_running
  /\ keep_running' = FALSE
  /\ UNCHANGED <<session, history, stream, runPc, sender, trace>>
  /\ SessionQuiet

\* A send_input that writes without asking whether the channel is open.
SendCheckAlwaysWrites(data) ==
  /\ session = "created"
  /\ sender.pc = "idle"
  /\ sender.sent < MaxSends
  /\ sender' = [sender EXCEPT !.pc = "write", !.data = data, !.outcome = "none"]
  /\ UNCHANGED <<session, keep_running, history, stream, runPc, trace>>
  /\ SessionQuiet

\* Line 68: if self.stream.is_open(); on a closed channel send_input returns.
SendCheck(data) ==
  /\ session = "created"
  /\ sender.pc = "idle"
  /\ sender.sent < MaxSends
  /\ sender' = IF stream.is_open
                 THEN [sender EXCEPT !.pc = "write", !.data = data, !.outcome = "none"]
                 ELSE [sender EXCEPT !.data = data, !.outcome = "dropped", !.sent = @ + 1]
  /\ UNCHANGED <<session, keep_running, history, stream, runPc, trace>>
  /\ SessionQuiet

\* Line 69: self.stream.write_stdin(data); the write raises when the channel
\* has been closed since the check.
SendWrite ==
  /\ sender.pc = "write"
  /\ stream' = [stream EXCEPT !.stdin = Append(@, sender.data)]
  /\ sender' = [sender EXCEPT !.pc = "idle",
                               !.outcome = IF stream.is_open THEN "written" ELSE "raised",
                               !.sent = @ + 1]
  /\ UNCHANGED <<session, keep_running, history, runPc, trace>>
  /\ SessionQuiet

\* A shell is asked for; the remote shell will send the frames of yields.
SessionInit ==
  /\ toolStatus = "installed"
  /\ K8S_AVAILABLE = TRUE
  /\ GateIdle
  /\ SessionIdle
  /\ yields \in Scripts
  /\ InstallIdle

\* The steps of the thread that executes run().
Pump ==
  \/ LoopCheck
  \/ \E arrival \in {"nothing", "data", "close"} : Update(arrival)
  \/ \E arrival \in {"nothing", "data", "close"} : ReadStdout(arrival)
  \/ \E arrival \in {"nothing", "data", "close"} : ReadStderr(arrival)
  \/ Raise
  \/ Close

SessionNext ==
  \/ \E outcome \in {"load_kube_config raises", "stream raises", "ok"} :
       K8sSessionInit(outcome)
  \/ Start
  \/ LoopCheck
  \/ \E arrival \in {"nothing", "data", "close"} : Update(arrival)
  \/ \E arrival \in {"nothing", "data", "close"} : ReadStdout(arrival)
  \/ \E arrival \in {"nothing", "data", "close"} : ReadStderr(arrival)
  \/ Raise
  \/ Close
  \/ Stop
  \/ \E data \in Inputs : SendCheck(data)
  \/ SendWrite

SessionSpec == SessionInit /\ [][SessionNext]_vars

\* run() has a thread of its own, which goes on taking steps.
SessionFairSpec == SessionSpec /\ WF_vars(Pump)

\* ---------------------------------------------------- claims on sessions
\* The frames whose data the history holds, in the history's order.
RECURSIVE Flatten(_)
Flatten(h) == IF h = <<>> THEN <<>> ELSE Head(h).bytes \o Flatten(Tail(h))

\* The frames of stream s among the frames of a sequence, in its order.
Of(frames, s) == SelectSeq(frames, LAMBDA i : yields[i] = s)

\* Every frame the remote shell sent has been received and read.
AllRead ==
  /\ session = "created"
  /\ stream.received = Len(yields)
  /\ stream.stdout = <<>>
  /\ stream.stderr = <<>>

StoppedWhileRunning ==
  session = "created" /\ ~keep_running /\ runPc \notin {"idle", "done"}

\* C14: once stop() has cleared the flag, run() calls update at most once
\* more, and it goes on to leave the loop, close the channel and return,
\* whether or not the channel is open and has more data to give.
C14_StopEndsThePump ==
  /\ [](trace.polls <= 1)
  /\ (StoppedWhileRunning ~>
        (runPc = "done" /\ trace.closes = 1 /\ ~stream.is_open))

\* The flag ended the loop after one more poll, while the remote shell had
\* frames left to send.
C14_Witness ==
  /\ runPc = "done"
  /\ trace.cause = "flag"
  /\ trace.polls = 1
  /\ stream.received < Len(yields)

\* C15: when run() has returned it has called close on the channel once,
\* whichever of the flag, the closed channel or an exception ended the loop,
\* and it calls close at no earlier point.
C15_CloseIsCalledExactlyOnce ==
  /\ (runPc = "done") =>
       (trace.closes = 1 /\ trace.cause \in {"flag", "closed", "error"})
  /\ (runPc # "done") => (trace.closes = 0)

\* The remote shell closed the channel, and run() closed it once and returned.
C15_Witness ==
  /\ runPc = "done"
  /\ trace.cause = "closed"
  /\ trace.closes = 1

\* C16: no exception leaves run(): after update, a peek or a read has
\* raised, the loop is over, the channel is closed and run() has returned.
C16_PumpNeverPropagates ==
  /\ trace.result # "raised"
  /\ (trace.cause = "error" /\ runPc = "done") =>
       (trace.result = "returned" /\ trace.closes = 1 /\ ~stream.is_open)
  /\ (trace.cause = "error" /\ runPc # "done") => (runPc = "close")

\* An exception ended the loop after data had been read, and run() returned.
C16_Witness ==
  /\ runPc = "done"
  /\ trace.cause = "error"
  /\ trace.result = "returned"
  /\ history # <<>>

\* The step of send_input at line 68, and its step at line 69.
SendChecks == sender.pc = "idle" /\ sender' # sender
SendWrites == sender.pc = "write" /\ sender'.pc = "idle"

\* C17: send_input on a channel that reports closed returns without raising
\* and without a write, and leaves history and flag alone; on a channel that
\* reports open it calls write_stdin once, with the data it was given.
C17_SendOnClosedChannelIsDropped ==
  [][
     /\ (SendChecks /\ ~stream.is_open) =>
         (/\ sender'.pc = "idle"
          /\ sender'.outcome = "dropped"
          /\ UNCHANGED <<stream, history, keep_running>>)
     /\ (SendChecks /\ stream.is_open) =>
         (/\ sender'.pc = "write"
          /\ UNCHANGED <<stream, history, keep_running>>)
     /\ SendWrites =>
         (/\ stream'.stdin = Append(stream.stdin, sender.data)
          /\ sender'.data = sender.data
          /\ UNCHANGED <<history, keep_running>>)
    ]_vars

\* send_input ran after run() had closed the channel: nothing was written.
C17_Witness ==
  /\ runPc = "done"
  /\ sender.outcome = "dropped"
  /\ sender.data \in Inputs
  /\ stream.stdin = <<>>

\* C18: when the constructor raised, stream.stream was called at most once,
\* the caller holds no session, and nothing runs, reads or writes for it.
C18_FailedOpenGivesNoSession ==
  session = "failed" =>
    /\ trace.opens <= 1
    /\ runPc = "idle"
    /\ ~stream.is_open
    /\ history = <<>>
    /\ sender = NoSender
    /\ trace.polls = 0 /\ trace.closes = 0

\* stream.stream raised in the constructor.
C18_Witness ==
  /\ session = "failed"
  /\ trace.opens = 1

Created == session = "created" /\ runPc = "idle"
Running == session = "created" /\ runPc \notin {"idle", "done"}
Closed == session = "created" /\ runPc = "done"

\* C19: a session goes from Created to Running to Closed and never back; its
\* channel was opened once, and once run() has closed it the channel stays
\* closed, run() takes no further step and the history stays as it is.
C19_SessionOnlyMovesForward ==
  /\ [](session = "created" => trace.opens = 1)
  /\ [][
        /\ Created => (Created' \/ Running')
        /\ Running => (Running' \/ Closed')
        /\ Closed =>
            (/\ Closed'
             /\ ~stream'.is_open
             /\ history' = history
             /\ trace' = trace)
       ]_vars

\* run() has closed the channel with data left in the stdout buffer, and the
\* history has the entries it had.
C19_Witness ==
  /\ Closed
  /\ history # <<>>
  /\ stream.stdout # <<>>
  /\ sender.sent = MaxSends

\* C25: write_stdin is not invoked on the channel after the pump has closed
\* it: no close of run() falls between the is_open check of send_input and
\* its write.
C25_NoWriteAfterClose ==
  [][SendWrites => trace.closes = 0]_vars

\* ------------------------------------------- requests for two tools, a shell
\* The result of a call that found no readable kubeconfig.
NoConfigResult(k) ==
  [NewContext(k) EXCEPT !.k8s_error = <<NoKubeconfig>>, !.exit = "no_kubeconfig"]

\* All but two of the requests have been made, for a tool without a readable
\* kubeconfig; no shell has been asked for.
IsolationInit ==
  /\ toolStatus = "installed"
  /\ K8S_AVAILABLE = TRUE
  /\ pc = [t \in Threads |-> "idle"]
  /\ ctx = [t \in Threads |-> NoContext]
  /\ probingTTL = [k \in ToolIds |-> 0]
  /\ errorTTL = [k \in ToolIds |-> 0]
  /\ errorMsg = [k \in ToolIds |-> None]
  /\ markerAge = [k \in ToolIds |-> ProbeWindow]
  /\ markerOwner = [k \in ToolIds |-> 0]
  /\ failWindow = [k \in ToolIds |-> 0]
  /\ errorWindow = [k \in ToolIds |-> 0]
  /\ started = MaxRequests - 2
  /\ \E k \in ToolIds : last = NoConfigResult(k)
  /\ SessionIdle
  /\ yields = <<>>
  /\ InstallIdle

\* No get_context_data is under way.
NoCallInFlight == \A t \in Threads : pc[t] = "idle"

\* Requests for the pages of both tools, in any interleaving, and after them
\* the steps of a shell session, taken in whatever state the requests have
\* left the cache.
IsolationNext ==
  \/ \E t \in Threads : \E k \in ToolIds : Begin(t, k)
  \/ \E t \in Threads : CheckError(t)
  \/ \E t \in Threads : CheckProbing(t)
  \/ \E t \in Threads : NoConfig(t)
  \/ \E t \in Threads : SetProbing(t, TRUE, None)
  \/ \E t \in Threads : \E m \in LoadErrors : SetProbing(t, FALSE, m)
  \/ \E t \in Threads : CanarySuccess(t)
  \/ \E t \in Threads : \E m \in CanaryErrors : CanaryFail(t, m)
  \/ \E t \in Threads : FailDelete(t)
  \/ \E t \in Threads : ListsDone(t)
  \/ \E t \in Threads : \E i \in FailingCalls : \E m \in ListErrors : ListsFail(t, i, m)
  \/ \E t \in Threads : Except(t)
  \/ NoCallInFlight /\ started = MaxRequests /\ SessionNext

IsolationSpec == IsolationInit /\ [][IsolationNext]_vars

\* The cache entries of key j are as they were.
KeyUnchanged(j) ==
  /\ probingTTL'[j] = probingTTL[j]
  /\ errorTTL'[j] = errorTTL[j]
  /\ errorMsg'[j] = errorMsg[j]

\* C28: a step of a call for one tool leaves the marker and the cached error
\* of every other tool as they were; whether the call is answered from the
\* cache or told of a probe in progress is decided by the entries of its own
\* tool alone; and a step of a session leaves the whole gate state as it was,
\* while a shell can be opened whatever the gate holds.
C28_GateStateIsPerKey ==
  /\ [][
        /\ \A t \in Threads :
             (pc[t] # "idle" /\ pc'[t] # pc[t]) =>
               (/\ \A j \in ToolIds \ {ctx[t].tool} : KeyUnchanged(j)
                /\ (pc[t] = "check_error") =>
                     (IF errorTTL[ctx[t].tool] > 0
                        THEN /\ pc'[t] = "idle" /\ last'.exit = "cached"
                             /\ last'.k8s_error = <<CachedPrefix, errorMsg[ctx[t].tool]>>
                        ELSE pc'[t] = "check_probing")
                /\ (pc[t] = "check_probing") =>
                     (IF probingTTL[ctx[t].tool] > 0
                        THEN pc'[t] = "idle" /\ last'.exit = "probing"
                        ELSE pc'[t] = "set_probing"))
        /\ (sessionVars' # sessionVars) => UNCHANGED gateVars
       ]_vars
  /\ [](session = "none" => ENABLED K8sSessionInit("ok"))

\* While tool 1 has its marker and a cached error, a call for tool 2 got the
\* cluster's lists, and a shell was opened, written to and stopped.
C28_Witness ==
  /\ probingTTL[1] > 0
  /\ errorTTL[1] > 0
  /\ last.tool = 2
  /\ last.exit = "ok"
  /\ probingTTL[2] = 0
  /\ errorTTL[2] = 0
  /\ session = "created"
  /\ sender.outcome = "written"
  /\ ~keep_running

\* ============================================================== install
Statuses == {"not_installed", "installing", "installed", "error"}
Installable == {"not_installed", "error"}

\* The names of the stages of run_install, in the order of its list; the
\* first NumStages of them are run.
Stages ==
  << "Updating apt repositories...",
     "Installing dependencies...",
     "Setting up Kubernetes GPG key...",
     "Adding Kubernetes repository...",
     "Updating package index...",
     "Installing K8s components (kubeadm, kubelet, kubectl)...",
     "Disabling SWAP (Required for K8s)...",
     "Loading kernel modules...",
     "Configuring sysctl for K8s...",
     "Configuring firewalld ports...",
     "Configuring containerd (CRI)...",
     "Pulling Kubernetes images...",
     "Initializing Kubernetes cluster...",
     "Setting up kubeconfig...",
     "Installing Network Plugin (Flannel)...",
     "Allowing pods on control-plane..." >>
Completed == "Installation completed successfully"
InstallErrors == {"install failed"}

InstallQuiet == UNCHANGED <<K8S_AVAILABLE, gateVars, sessionVars>>

\* install(request, tool) is called with the tool as the caller loaded it.
InstallRequest(r) ==
  /\ installPc[r] = "idle"
  /\ installTool' = [installTool EXCEPT ![r] = toolStatus]
  /\ installPc' = [installPc EXCEPT ![r] = "guard"]
  /\ UNCHANGED <<toolStatus, installSeen, installThreads, installRun, installStage, installJob>>
  /\ InstallQuiet

\* An install() without the guard on the status.
install_unguarded(r) ==
  /\ installPc[r] = "guard"
  /\ installSeen' = [installSeen EXCEPT ![r] = installTool[r]]
  /\ installTool' = [installTool EXCEPT ![r] = "installing"]
  /\ installPc' = [installPc EXCEPT ![r] = "save"]
  /\ UNCHANGED <<toolStatus, installThreads, installRun, installStage, installJob>>
  /\ InstallQuiet

\* Lines 318-321: install() returns unless the status is 'not_installed' or
\* 'error'; otherwise the tool object's status becomes 'installing'.
install_guard(r) ==
  /\ installPc[r] = "guard"
  /\ installSeen' = [installSeen EXCEPT ![r] = installTool[r]]
  /\ IF installTool[r] \notin Installable
       THEN /\ installPc' = [installPc EXCEPT ![r] = "done"]
            /\ UNCHANGED installTool
       ELSE /\ installTool' = [installTool EXCEPT ![r] = "installing"]
            /\ installPc' = [installPc EXCEPT ![r] = "save"]
  /\ UNCHANGED <<toolStatus, installThreads, installRun, installStage, installJob>>
  /\ InstallQuiet

\* Line 322: tool.save() writes the object's status to the tool's row.
install_save(r) ==
  /\ installPc[r] = "save"
  /\ toolStatus' = installTool[r]
  /\ installPc' = [installPc EXCEPT ![r] = "start"]
  /\ UNCHANGED <<installTool, installSeen, installThreads, installRun, installStage,
                 installJob>>
  /\ InstallQuiet

\* Line 357: threading.Thread(target=run_install).start(), and install()
\* returns.
install_start(r) ==
  /\ installPc[r] = "start"
  /\ installThreads' = [installThreads EXCEPT ![r] = @ + 1]
  /\ installRun' = [installRun EXCEPT ![r] = "stage"]
  /\ installPc' = [installPc EXCEPT ![r] = "done"]
  /\ UNCHANGED <<toolStatus, installTool, installSeen, installStage, installJob>>
  /\ InstallQuiet

\* Lines 345-346 in run_install: the next stage is named in current_stage and
\* tool.save() writes the object, its status with it, to the tool's row.
run_install_stage(r) ==
  /\ installRun[r] = "stage"
  /\ installStage' = [installStage EXCEPT ![r] = @ + 1]
  /\ installJob' = [installJob EXCEPT ![r].current_stage = Stages[installStage[r] + 1]]
  /\ toolStatus' = installTool[r]
  /\ installRun' = [installRun EXCEPT ![r] = "command"]
  /\ UNCHANGED <<installPc, installTool, installSeen, installThreads>>
  /\ InstallQuiet

\* A run_install that notes the exception of a stage and goes on with the
\* stages after it.
run_install_command_carries_on(r, raises) ==
  /\ installRun[r] = "command"
  /\ \E m \in InstallErrors :
       /\ installJob' = [installJob EXCEPT
            ![r].ran = Append(@, installStage[r]),
            ![r].error_log = IF raises THEN m ELSE @,
            ![r].current_stage = IF ~raises /\ installStage[r] = NumStages
                                   THEN Completed ELSE @]
       /\ installTool' = [installTool EXCEPT ![r] =
            IF raises THEN "error"
            ELSE IF installStage[r] = NumStages THEN "installed" ELSE @]
       /\ installRun' = [installRun EXCEPT ![r] =
            IF installStage[r] = NumStages THEN "save" ELSE "stage"]
  /\ UNCHANGED <<toolStatus, installPc, installSeen, installThreads, installStage>>
  /\ InstallQuiet

\* Lines 347-353: run_command returns, and the next stage follows or, after
\* the last one, the status becomes 'installed' and current_stage tells of
\* the completion; or run_command raises, and the status becomes 'error'
\* with the exception's text in config_data['error_log'].
run_install_command(r, raises) ==
  /\ installRun[r] = "command"
  /\ IF raises
       THEN /\ \E m \in InstallErrors :
                 installJob' = [installJob EXCEPT ![r].ran = Append(@, installStage[r]),
                                                  ![r].error_log = m]
            /\ installTool' = [installTool EXCEPT ![r] = "error"]
            /\ installRun' = [installRun EXCEPT ![r] = "save"]
       ELSE IF installStage[r] = NumStages
         THEN /\ installJob' = [installJob EXCEPT ![r].ran = Append(@, installStage[r]),
                                                  ![r].current_stage = Completed]
              /\ installTool' = [installTool EXCEPT ![r] = "installed"]
              /\ installRun' = [installRun EXCEPT ![r] = "save"]
         ELSE /\ installJob' = [installJob EXCEPT ![r].ran = Append(@, installStage[r])]
              /\ installRun' = [installRun EXCEPT ![r] = "stage"]
              /\ UNCHANGED installTool
  /\ UNCHANGED <<toolStatus, installPc, installSeen, installThreads, installStage>>
  /\ InstallQuiet

\* Line 355: the closing tool.save() of run_install.
run_install_save(r) ==
  /\ installRun[r] = "save"
  /\ toolStatus' = installTool[r]
  /\ installRun' = [installRun EXCEPT ![r] = "finished"]
  /\ UNCHANGED <<installPc, installTool, installSeen, installThreads, installStage,
                 installJob>>
  /\ InstallQuiet

InstallInit ==
  /\ toolStatus \in Statuses
  /\ K8S_AVAILABLE = TRUE
  /\ GateIdle
  /\ SessionIdle
  /\ yields = <<>>
  /\ InstallIdle

InstallNext ==
  \/ \E r \in Installers : InstallRequest(r)
  \/ \E r \in Installers : install_guard(r)
  \/ \E r \in Installers : install_save(r)
  \/ \E r \in Installers : install_start(r)
  \/ \E r \in Installers : run_install_stage(r)
  \/ \E r \in Installers : \E raises \in BOOLEAN : run_install_command(r, raises)
  \/ \E r \in Installers : run_install_save(r)

InstallSpec == InstallInit /\ [][InstallNext]_vars

\* The steps of the run_install threads.
RunInstall(r) ==
  \/ run_install_stage(r)
  \/ \E raises \in BOOLEAN : run_install_command(r, raises)
  \/ run_install_save(r)

\* Every run_install thread goes on taking steps: run_command returns or
\* raises within its timeout.
InstallFairSpec == InstallSpec /\ \A r \in Installers : WF_vars(RunInstall(r))

\* ------------------------------------------------------ claims on install
\* C20: an install() that finds a status other than 'not_installed' and
\* 'error' changes nothing and starts no thread; one that finds either of
\* the two sets the object's status to 'installing', saves it to the row and
\* starts one run_install thread.
C20_InstallIsGuardedByStatus ==
  /\ [](\A r \in Installers :
          installPc[r] = "done" =>
            IF installSeen[r] \in Installable
              THEN installThreads[r] = 1
              ELSE installTool[r] = installSeen[r] /\ installThreads[r] = 0)
  /\ [][\A r \in Installers :
          /\ (installPc[r] = "guard" /\ installPc'[r] = "done") =>
               UNCHANGED <<toolStatus, installTool, installThreads>>
          /\ (installPc[r] = "guard" /\ installPc'[r] # "guard"
                /\ installTool[r] \in Installable) =>
               (installTool'[r] = "installing" /\ installPc'[r] = "save")
          /\ (installPc[r] = "save" /\ installPc'[r] # "save") =>
               (toolStatus' = "installing" /\ installPc'[r] = "start")
          /\ (installPc[r] = "start" /\ installPc'[r] # "start") =>
               (installThreads'[r] = installThreads[r] + 1 /\ installPc'[r] = "done")
        ]_vars

\* One install() found 'error' and started its thread; another found
\* 'installing' and returned.
C20_Witness ==
  \E r, q \in Installers :
    /\ installPc[r] = "done" /\ installSeen[r] = "error" /\ installThreads[r] = 1
    /\ installPc[q] = "done" /\ installSeen[q] = "installing" /\ installThreads[q] = 0
    /\ toolStatus = "installing"

\* C21: a run_install thread runs the stages in the order of the list, one
\* after the other, and none after a stage that raised; it comes to its end,
\* and then the tool's status is 'installed' with current_stage telling of
\* the completion when every stage returned, or 'error' with the exception's
\* text in error_log when one raised, and that status is in the tool's row:
\* the thread does not finish with 'installing'.
C21_InstallThreadRunsToAnEnd ==
  /\ [](\A r \in Installers :
          /\ installJob[r].ran = [i \in 1..Len(installJob[r].ran) |-> i]
          /\ (installJob[r].error_log # None) =>
               (installRun[r] \in {"save", "finished"} /\ installTool[r] = "error")
          /\ (installRun[r] \in {"save", "finished"}) =>
               \/ /\ installTool[r] = "installed"
                  /\ Len(installJob[r].ran) = NumStages
                  /\ installJob[r].current_stage = Completed
               \/ /\ installTool[r] = "error"
                  /\ installJob[r].error_log \in InstallErrors
                  /\ Len(installJob[r].ran) \in 1..NumStages
                  /\ installJob[r].current_stage = Stages[Len(installJob[r].ran)])
  /\ [][
        \A r \in Installers :
          /\ (installRun[r] = "save" /\ installRun'[r] = "finished") =>
               (toolStatus' = installTool[r] /\ toolStatus' \in {"installed", "error"})
          /\ (installRun[r] \in {"save", "finished"}) =>
               (installJob'[r] = installJob[r] /\ installTool'[r] = installTool[r])
       ]_vars
  /\ \A r \in Installers :
       (installRun[r] = "stage") ~> (installRun[r] = "finished")

\* The first stage raised: the thread has finished without running another,
\* and the tool's row has status 'error'.
C21_Witness ==
  \E r \in Installers :
    /\ installRun[r] = "finished"
    /\ installTool[r] = "error"
    /\ installJob[r].ran = <<1>>
    /\ installJob[r].error_log = "install failed"
    /\ toolStatus = "error"

\* The run_install threads that have been started and have not finished.
RunningInstalls == {r \in Installers : installRun[r] \in {"stage", "command", "save"}}

\* C26: for the one tool at most one run_install thread is running at any
\* time.
C26_AtMostOneInstallThread ==
  Cardinality(RunningInstalls) <= 1

====
